---- MODULE Spec2Model ----
(***************************************************************************)
(* Model of app/main.py: a FastAPI service with GET /healthz and           *)
(* POST /ingest.  /ingest authenticates with a static bearer token, parses *)
(* a JSON metadata form field, derives a blob name, uploads the file to    *)
(* Azure Blob storage and upserts a document into Cosmos DB.               *)
(*                                                                         *)
(* Text values on which the code does character work (the Authorization    *)
(* header, the token, camera_id / ts / barcode, the file name) are         *)
(* sequences of one-character strings.  Values the code only passes along  *)
(* (content type, connection strings) are atomic strings.  Python's None   *)
(* is the sentinel None (sequences) or NoneStr (atomic strings).           *)
(***************************************************************************)
EXTENDS Integers, Sequences, FiniteSets, TLC

VARIABLES
    env,               \* os.environ, fixed for the life of the process
    blobs,             \* the blob container: blob name -> stored object
    docs,              \* the Cosmos container: the set of stored items
    req,               \* the POST /ingest requests: inputs, position, response
    uuidCount,         \* how many uuid4() values have been drawn
    healthzResponses   \* the responses GET /healthz has returned, in order

vars == <<env, blobs, docs, req, uuidCount, healthzResponses>>

(* ---------------------------- bounds ----------------------------------- *)

\* number of POST /ingest requests of one behaviour
MaxReq == 2

\* number of GET /healthz calls of one behaviour
MaxHealthz == 2

Requests == 1..MaxReq

(* ------------------------- Python values -------------------------------- *)

None == <<"None">>

NoneStr == "None"

\* Python truthiness of an optional text: None and "" are falsy
Falsy(s) == s = None \/ s = <<>>

FalsyStr(s) == s = NoneStr \/ s = ""

\* a or b
Or(a, b) == IF Falsy(a) THEN b ELSE a

OrStr(a, b) == IF FalsyStr(a) THEN b ELSE a

\* s.startswith(p)
StartsWith(s, p) == Len(s) >= Len(p) /\ SubSeq(s, 1, Len(p)) = p

\* index of the first occurrence of c in s, 0 when there is none
Find(s, c) ==
    IF \E i \in 1..Len(s) : s[i] = c
    THEN CHOOSE i \in 1..Len(s) : s[i] = c /\ \A j \in 1..(i - 1) : s[j] # c
    ELSE 0

\* index of the last occurrence of c in s, 0 when there is none
RFind(s, c) ==
    IF \E i \in 1..Len(s) : s[i] = c
    THEN CHOOSE i \in 1..Len(s) : s[i] = c /\ \A j \in (i + 1)..Len(s) : s[j] # c
    ELSE 0

\* s.split(" ", 1)[1]: everything after the first space
SplitAfterSpace(s) == SubSeq(s, Find(s, " ") + 1, Len(s))

Whitespace == {" ", "\t", "\n"}

RECURSIVE LStrip(_)
LStrip(s) == IF s # <<>> /\ s[1] \in Whitespace THEN LStrip(Tail(s)) ELSE s

RECURSIVE RStrip(_)
RStrip(s) ==
    IF s # <<>> /\ s[Len(s)] \in Whitespace THEN RStrip(SubSeq(s, 1, Len(s) - 1)) ELSE s

\* s.strip()
Strip(s) == RStrip(LStrip(s))

\* s.replace(old, new) for a one-character old; new is a sequence
RECURSIVE Replace(_, _, _)
Replace(s, old, new) ==
    IF s = <<>> THEN <<>>
    ELSE (IF s[1] = old THEN new ELSE <<s[1]>>) \o Replace(Tail(s), old, new)

\* Path(name).suffix: the final component's part from its last dot, unless
\* that dot leads or ends the component
PathName(name) == SubSeq(name, RFind(name, "/") + 1, Len(name))

Suffix(name) ==
    LET n == PathName(name)
        i == RFind(n, ".")
    IN  IF 1 < i /\ i < Len(n) THEN SubSeq(n, i, Len(n)) ELSE <<>>

(* ------------------------------ uuid4 ----------------------------------- *)

\* uuid.uuid4(): the n-th value drawn.  Values drawn at different times are
\* taken to differ (122 random bits).
Uuid4(n) == n

\* uuid4().hex and str(uuid4()), each one atom of text
UuidHex(u) == "hex" \o ToString(u)

UuidStr(u) == "uuid-" \o ToString(u)

(* --------------------------- bearer_auth -------------------------------- *)

Bearer == <<"B", "e", "a", "r", "e", "r", " ">>

\* get_api_token() raises its RuntimeError: API_TOKEN is unset or empty
GetApiTokenFails(tok) == Falsy(tok)

\* bearer_auth comparing the way tok.startswith(supplied) would
BearerAuthPrefix(authorization, tok) ==
    IF Falsy(authorization) \/ ~StartsWith(authorization, Bearer) THEN 401
    ELSE IF GetApiTokenFails(tok) THEN 500
    ELSE IF ~StartsWith(tok, SplitAfterSpace(authorization)) THEN 403
    ELSE 0

\* bearer_auth: the status of the exception it raises, 0 when it returns
BearerAuth(authorization, tok) ==
    IF Falsy(authorization) \/ ~StartsWith(authorization, Bearer) THEN 401
    ELSE IF GetApiTokenFails(tok) THEN 500
    ELSE IF SplitAfterSpace(authorization) # tok THEN 403
    ELSE 0

(* ---------------------------- json.loads -------------------------------- *)

\* The metadata text is a sequence of JSON tokens; a token is a sequence of
\* strings: punctuation, a number, null, or a string (a quote mark followed
\* by its characters).
LBrace == <<"{">>
RBrace == <<"}">>
LBracket == <<"[">>
RBracket == <<"]">>
Colon == <<":">>
Comma == <<",">>
NullTok == <<"null">>
NumToks == {<<"0">>, <<"5">>}

StrTok(s) == <<"\"">> \o s

IsStrTok(t) == t # <<>> /\ t[1] = "\""

StrVal(t) == Tail(t)

IsScalar(t) == IsStrTok(t) \/ t \in NumToks \/ t = NullTok

\* key : value pairs separated by commas
IsMembers(ts) ==
    \/ ts = <<>>
    \/ /\ Len(ts) % 4 = 3
       /\ \A i \in 1..Len(ts) :
            CASE i % 4 = 1 -> IsStrTok(ts[i])
              [] i % 4 = 2 -> ts[i] = Colon
              [] i % 4 = 3 -> IsScalar(ts[i])
              [] OTHER -> ts[i] = Comma

\* scalar values separated by commas
IsElements(ts) ==
    \/ ts = <<>>
    \/ /\ Len(ts) % 2 = 1
       /\ \A i \in 1..Len(ts) : IF i % 2 = 1 THEN IsScalar(ts[i]) ELSE ts[i] = Comma

Inner(ts) == SubSeq(ts, 2, Len(ts) - 1)

\* a parse that falls back to {} where json.loads raises
JsonLoadsOrEmpty(meta) ==
    IF Len(meta) = 1 /\ IsScalar(meta[1])
        THEN [ok |-> TRUE, kind |-> "scalar", items |-> meta]
    ELSE IF Len(meta) >= 2 /\ meta[1] = LBracket /\ meta[Len(meta)] = RBracket
            /\ IsElements(Inner(meta))
        THEN [ok |-> TRUE, kind |-> "list", items |-> Inner(meta)]
    ELSE IF Len(meta) >= 2 /\ meta[1] = LBrace /\ meta[Len(meta)] = RBrace
            /\ IsMembers(Inner(meta))
        THEN [ok |-> TRUE, kind |-> "dict", items |-> Inner(meta)]
    ELSE [ok |-> TRUE, kind |-> "dict", items |-> <<>>]

\* json.loads(meta): ok = FALSE stands for the exception it raises
JsonLoads(meta) ==
    IF Len(meta) = 1 /\ IsScalar(meta[1])
        THEN [ok |-> TRUE, kind |-> "scalar", items |-> meta]
    ELSE IF Len(meta) >= 2 /\ meta[1] = LBracket /\ meta[Len(meta)] = RBracket
            /\ IsElements(Inner(meta))
        THEN [ok |-> TRUE, kind |-> "list", items |-> Inner(meta)]
    ELSE IF Len(meta) >= 2 /\ meta[1] = LBrace /\ meta[Len(meta)] = RBrace
            /\ IsMembers(Inner(meta))
        THEN [ok |-> TRUE, kind |-> "dict", items |-> Inner(meta)]
    ELSE [ok |-> FALSE, kind |-> "error", items |-> <<>>]

\* m.get(key) on a dict: the value of the last member with that key, else None
DictGet(m, key) ==
    LET at == {i \in 1..Len(m.items) : i % 4 = 1 /\ m.items[i] = StrTok(key)}
    IN  IF at = {} THEN NullTok
        ELSE m.items[(CHOOSE i \in at : \A j \in at : j <= i) + 2]

\* Python truthiness of a JSON scalar
Truthy(v) == (IsStrTok(v) /\ StrVal(v) # <<>>) \/ (v \in NumToks /\ v # <<"0">>)

\* (m.get(key) or default).strip(): ok = FALSE stands for the AttributeError
\* of a value without .get or .strip
GetStripped(m, key, default) ==
    IF m.kind # "dict" THEN [ok |-> FALSE, text |-> <<>>]
    ELSE LET v == DictGet(m, key)
         IN  IF ~Truthy(v) THEN [ok |-> TRUE, text |-> Strip(default)]
             ELSE IF IsStrTok(v) THEN [ok |-> TRUE, text |-> Strip(StrVal(v))]
             ELSE [ok |-> FALSE, text |-> <<>>]

(* ----------------------- naming and the document ------------------------ *)

\* ts_raw.replace(":", "").replace("/", "-").replace(" ", "T")
SafeTs(ts_raw) == Replace(Replace(Replace(ts_raw, ":", <<>>), "/", <<"-">>), " ", <<"T">>)

\* Path(file.filename or "").suffix or ".bin"
Ext(filename) == Or(Suffix(Or(filename, <<>>)), <<".", "b", "i", "n">>)

\* a name without the uuid: f"{camera}-{safe_ts}-{barcode}{ext}"
BlobNameNoUuid(camera, safe_ts, barcode, hex, ext) ==
    camera \o <<"-">> \o safe_ts \o <<"-">> \o barcode \o ext

\* f"{camera}-{safe_ts}-{barcode}-{uuid.uuid4().hex}{ext}"
BlobName(camera, safe_ts, barcode, hex, ext) ==
    camera \o <<"-">> \o safe_ts \o <<"-">> \o barcode \o <<"-">> \o <<hex>> \o ext

\* datetime.utcnow().isoformat() + "Z", one atom of text
UtcNow == <<"utcnow", "Z">>

Doc(id, camera, ts_raw, barcode, blob_name, data) ==
    [id |-> id,
     camera_id |-> camera,
     ts |-> Or(ts_raw, UtcNow),
     barcode |-> Or(barcode, <<"unknown">>),
     blob |-> blob_name,
     size |-> Len(data)]

(* ------------------------------ stores ---------------------------------- *)

ValidConnStrs == {"UseDevelopmentStorage=true"}

\* get_blob_clients() up to the container client: the exception it raises
GetBlobClients(e) ==
    LET conn == OrStr(e.BLOB_CONN_STR, e.AZURE_STORAGE_CONNECTION_STRING)
    IN  IF FalsyStr(conn) THEN "RuntimeError"
        ELSE IF conn \notin ValidConnStrs THEN "ValueError"
        ELSE "ok"

\* container.upload_blob(name, data, overwrite=True, content_settings) succeeding
UploadBlob(store, name, data, content_type) ==
    [n \in DOMAIN store \cup {name} |->
        IF n = name
        THEN [data |-> data, content_type |-> OrStr(content_type, "application/octet-stream")]
        ELSE store[n]]

\* get_cosmos_container() returning None
CosmosMissing(e) == FalsyStr(e.COSMOS_ENDPOINT) \/ FalsyStr(e.COSMOS_KEY)

\* cont.upsert_item(doc) succeeding: items are identified by id within the
\* /barcode partition
UpsertItem(cont, doc) ==
    {d \in cont : ~(d.id = doc.id /\ d.barcode = doc.barcode)} \cup {doc}

(* ----------------------------- requests --------------------------------- *)

NoDoc == Doc(NoneStr, None, None, None, None, <<>>)

NoBody == [detail |-> NoneStr]

NewRequest ==
    [pc |-> "new",
     authorization |-> None, content_type |-> NoneStr, filename |-> None,
     meta |-> <<>>, payload |-> <<>>,
     camera |-> None, ts_raw |-> None, barcode |-> None, blob_name |-> None,
     data |-> <<>>, doc |-> NoDoc, calls |-> <<>>,
     status |-> 0, body |-> NoBody]

Call(op, ok) == [op |-> op, ok |-> ok]

\* the response of an HTTPException or of an unhandled exception
Fail(q, status, detail) ==
    [q EXCEPT !.pc = "done", !.status = status, !.body = [detail |-> detail]]

ServerError(q) == Fail(q, 500, "Internal Server Error")

\* JSONResponse({"ok": True, "blob": blob_name, "doc": doc})
Success(q, doc) ==
    [q EXCEPT !.pc = "done", !.status = 200, !.doc = doc,
              !.body = [ok |-> TRUE, blob |-> q.blob_name, doc |-> doc]]

(* --------------------------- POST /ingest ------------------------------- *)

AuthDetail(status) ==
    CASE status = 401 -> "missing bearer"
      [] status = 403 -> "bad token"
      [] OTHER -> "Internal Server Error"

\* ingest, from its first line to the await of file.read(): parse meta, take
\* camera, ts_raw and barcode, derive blob_name with the uuid u
IngestStart(q, u) ==
    LET m == JsonLoads(q.meta)
        camera == GetStripped(m, <<"camera_id">>, <<"unknown">>)
        ts_raw == GetStripped(m, <<"ts">>, <<>>)
        barcode == GetStripped(m, <<"barcode">>, <<>>)
    IN  IF ~m.ok THEN Fail(q, 400, "meta must be JSON")
        ELSE IF ~(camera.ok /\ ts_raw.ok /\ barcode.ok) THEN ServerError(q)
        ELSE [q EXCEPT !.pc = "read",
                       !.camera = camera.text,
                       !.ts_raw = ts_raw.text,
                       !.barcode = barcode.text,
                       !.blob_name = BlobName(camera.text, SafeTs(ts_raw.text), barcode.text,
                                              UuidHex(u), Ext(q.filename))]

\* A request arrives with the inputs in: the bearer_auth dependency runs,
\* then the handler up to the await of file.read().  Requests arrive in the
\* order of their numbers.
Receive(r, in) ==
    /\ req[r].pc = "new"
    /\ \A k \in 1..(r - 1) : req[k].pc # "new"
    /\ LET q0 == [req[r] EXCEPT !.authorization = in.authorization,
                                !.content_type = in.content_type,
                                !.filename = in.filename,
                                !.meta = in.meta,
                                !.payload = in.payload]
           a == BearerAuth(in.authorization, env.API_TOKEN)
           q1 == IF a # 0 THEN Fail(q0, a, AuthDetail(a))
                 ELSE IngestStart(q0, Uuid4(uuidCount + 1))
       IN  /\ req' = [req EXCEPT ![r] = q1]
           /\ uuidCount' = IF q1.pc = "read" THEN uuidCount + 1 ELSE uuidCount
    /\ UNCHANGED <<env, blobs, docs, healthzResponses>>

\* an upload whose exception is passed over, as create_container's is
AfterUploadPassedOver(q, up) == [q EXCEPT !.pc = "meta"]

\* upload_blob has returned (up) or raised (~up): nothing catches the exception
AfterUpload(q, up) == IF up THEN [q EXCEPT !.pc = "meta"] ELSE ServerError(q)

\* ingest, from the return of file.read() to the return of upload_blob.
\* An exception of create_container is passed over, so only the call is
\* recorded; upload_blob may fail.
Upload(r) ==
    /\ req[r].pc = "read"
    /\ LET q == [req[r] EXCEPT !.data = req[r].payload]
       IN  IF GetBlobClients(env) # "ok"
           THEN /\ req' = [req EXCEPT ![r] = ServerError(q)]
                /\ blobs' = blobs
           ELSE \E up \in BOOLEAN :
                    LET q2 == [q EXCEPT !.calls = @ \o <<Call("create_container", TRUE),
                                                         Call("upload_blob", up)>>]
                    IN  /\ req' = [req EXCEPT ![r] = AfterUpload(q2, up)]
                        /\ blobs' = IF up
                                    THEN UploadBlob(blobs, q.blob_name, q.data, q.content_type)
                                    ELSE blobs
    /\ UNCHANGED <<env, docs, uuidCount, healthzResponses>>

\* ingest, from get_cosmos_container() to the response.  Creating the
\* database and container may fail and so may upsert_item; cont is None when
\* the endpoint or the key is not configured.
WriteMeta(r) ==
    /\ req[r].pc = "meta"
    /\ LET q == req[r]
           doc == Doc(UuidStr(Uuid4(uuidCount + 1)), q.camera, q.ts_raw, q.barcode,
                      q.blob_name, q.data)
       IN  IF CosmosMissing(env)
           THEN /\ req' = [req EXCEPT ![r] = Success(q, doc)]
                /\ docs' = docs
                /\ uuidCount' = uuidCount + 1
           ELSE \E outcome \in {"create failed", "upsert failed", "upserted"} :
                    LET created == outcome # "create failed"
                        q2 == [q EXCEPT !.calls = @ \o
                                  <<Call("create_container_if_not_exists", created)>>]
                        q3 == [q2 EXCEPT !.calls = @ \o
                                  <<Call("upsert_item", outcome = "upserted")>>]
                    IN  CASE outcome = "create failed" ->
                               /\ req' = [req EXCEPT ![r] = ServerError(q2)]
                               /\ docs' = docs
                               /\ uuidCount' = uuidCount
                          [] outcome = "upsert failed" ->
                               /\ req' = [req EXCEPT ![r] = ServerError([q3 EXCEPT !.doc = doc])]
                               /\ docs' = docs
                               /\ uuidCount' = uuidCount + 1
                          [] outcome = "upserted" ->
                               /\ req' = [req EXCEPT ![r] = Success(q3, doc)]
                               /\ docs' = UpsertItem(docs, doc)
                               /\ uuidCount' = uuidCount + 1
    /\ UNCHANGED <<env, blobs, healthzResponses>>

(* ---------------------------- GET /healthz ------------------------------ *)

\* a health check that reports whether the blob settings are usable
HealthzReady ==
    /\ Len(healthzResponses) < MaxHealthz
    /\ healthzResponses' = Append(healthzResponses, [ok |-> GetBlobClients(env) = "ok"])
    /\ UNCHANGED <<env, blobs, docs, req, uuidCount>>

Healthz ==
    /\ Len(healthzResponses) < MaxHealthz
    /\ healthzResponses' = Append(healthzResponses, [ok |-> TRUE])
    /\ UNCHANGED <<env, blobs, docs, req, uuidCount>>

(* ------------------------- inputs and settings -------------------------- *)

Token1 == <<"t", "1">>

Token2 == <<"t", "1", "x">>

Env(tok, blob, azure, ep, key) ==
    [API_TOKEN |-> tok, BLOB_CONN_STR |-> blob, AZURE_STORAGE_CONNECTION_STRING |-> azure,
     COSMOS_ENDPOINT |-> ep, COSMOS_KEY |-> key]

\* the settings a process may start with: each variable set, unset or wrong
Envs ==
    {Env(tok, conn[1], conn[2], cosmos[1], cosmos[2]) :
        tok \in {None, Token2},
        conn \in {<<NoneStr, NoneStr>>,
                  <<"UseDevelopmentStorage=true", NoneStr>>,
                  <<NoneStr, "UseDevelopmentStorage=true">>,
                  <<"garbage", "UseDevelopmentStorage=true">>},
        cosmos \in {<<NoneStr, NoneStr>>,
                    <<"https://localhost:8081", NoneStr>>,
                    <<"https://localhost:8081", "key">>}}

Headers ==
    {None, <<>>, Bearer, Bearer \o Token1, Bearer \o Token2,
     <<"B", "a", "s", "i", "c", " ">> \o Token2,
     <<"b", "e", "a", "r", "e", "r", " ">> \o Token2,
     Bearer \o <<" ">> \o Token2}

AllowList == {"image/jpeg", "image/png", "image/webp"}

ContentTypes == {"image/jpeg", "text/plain", NoneStr}

Filenames == {None, <<"a", ".", "j", "p", "g">>, <<"a">>, <<".", "j">>}

Key(k) == StrTok(<<k>>)

MetaFull ==
    <<LBrace, Key("camera_id"), Colon, StrTok(<<" ", "c", "1">>), Comma,
      Key("ts"), Colon, StrTok(<<"1", ":", "2", " ", "3", "/", "4">>), Comma,
      Key("barcode"), Colon, StrTok(<<"b">>), RBrace>>

MetaCam == <<LBrace, Key("camera_id"), Colon, StrTok(<<"c", "1">>), RBrace>>

WellFormedMetas ==
    {MetaFull, MetaCam,
     <<LBrace, RBrace>>,
     <<LBrace, Key("camera_id"), Colon, <<"5">>, RBrace>>,
     <<LBrace, Key("camera_id"), Colon, NullTok, Comma,
       Key("camera_id"), Colon, StrTok(<<"c", "2">>), RBrace>>,
     <<LBracket, RBracket>>,
     <<NullTok>>}

MalformedMetas ==
    {<<>>,
     <<LBrace>>,
     <<LBrace, Key("camera_id"), Colon, RBrace>>,
     <<LBrace, Key("camera_id"), Colon, StrTok(<<"c", "1">>), Comma, RBrace>>,
     <<Key("camera_id"), Colon, StrTok(<<"c", "1">>)>>,
     <<LBrace, <<"5">>, Colon, StrTok(<<"c", "1">>), RBrace>>,
     <<LBracket, Comma, RBracket>>}

Payloads == {<<>>, <<7, 8>>}

Inputs(hs, cts, fs, ms, ps) ==
    [authorization : hs, content_type : cts, filename : fs, meta : ms, payload : ps]

Jpg == <<"a", ".", "j", "p", "g">>

Input(h, ct, f, m, p) ==
    [authorization |-> h, content_type |-> ct, filename |-> f, meta |-> m, payload |-> p]

\* the requests of Spec: authenticated, with well-formed metadata
IngestInputs ==
    {Input(Bearer \o Token2, "image/jpeg", Jpg, MetaFull, <<7, 8>>),
     Input(Bearer \o Token2, "image/jpeg", Jpg, MetaCam, <<7, 8>>),
     Input(Bearer \o Token2, "text/plain", Jpg, MetaFull, <<7, 8>>),
     Input(Bearer \o Token2, "image/jpeg", Jpg, MetaFull, <<>>),
     Input(Bearer \o Token2, NoneStr, None, MetaCam, <<7, 8>>)}

\* the requests of SpecValidation
ValidationInputs ==
    Inputs(Headers, ContentTypes, Filenames, WellFormedMetas \cup MalformedMetas, Payloads)

(* --------------------------- specifications ----------------------------- *)

Init ==
    /\ env \in Envs
    /\ blobs = [n \in {} |-> NoBody]
    /\ docs = {}
    /\ req = [r \in Requests |-> NewRequest]
    /\ uuidCount = 0
    /\ healthzResponses = <<>>

ReceiveIngest == \E r \in Requests : \E in \in IngestInputs : Receive(r, in)

ReceiveAny == \E in \in ValidationInputs : Receive(1, in)

UploadStep == \E r \in Requests : Upload(r)

WriteMetaStep == \E r \in Requests : WriteMeta(r)

\* concurrent requests against stores that may fail
Next == ReceiveIngest \/ UploadStep \/ WriteMetaStep \/ Healthz

Spec == Init /\ [][Next]_vars

\* one request with any header, content type, file name, metadata and body
NextValidation == ReceiveAny \/ UploadStep \/ WriteMetaStep

SpecValidation == Init /\ [][NextValidation]_vars

\* the requests of Spec in a process with every setting in place
InitConfigured ==
    /\ Init
    /\ env = Env(Token2, "UseDevelopmentStorage=true", NoneStr, "https://localhost:8081", "key")

SpecConfigured == InitConfigured /\ [][Next]_vars

(* ------------------------------ properties ------------------------------ *)

Done(r) == req[r].pc = "done"

\* request r has been received
Received(r) == req[r].pc # "new"

\* request r made the call op and it succeeded (ok) or failed (~ok)
Called(r, op, ok) == \E i \in 1..Len(req[r].calls) : req[r].calls[i] = Call(op, ok)

CalledOp(r, op) == Called(r, op, TRUE) \/ Called(r, op, FALSE)

\* request r has made no call to either store
NoStoreCall(r) == req[r].calls = <<>>

\* a token is configured and request r carries exactly "Bearer <token>"
Authenticated(r) ==
    ~Falsy(env.API_TOKEN) /\ req[r].authorization = Bearer \o env.API_TOKEN

\* request r is past file.read(): the step from the read to upload_blob ran
BodyRead(r) == req[r].blob_name # None /\ req[r].pc # "read"

\* C1: every item of the metadata store names a blob that is stored; a
\* request calls upsert_item only after its own upload_blob succeeded; a
\* request whose upload_blob failed is answered 500, has made no metadata
\* call and has no item naming its blob.
C1_MetadataAfterObject ==
    /\ \A d \in docs : d.blob \in DOMAIN blobs
    /\ \A r \in Requests :
        /\ (CalledOp(r, "upsert_item") \/ CalledOp(r, "create_container_if_not_exists"))
              => /\ Called(r, "upload_blob", TRUE)
                 /\ req[r].blob_name \in DOMAIN blobs
        /\ Called(r, "upload_blob", FALSE)
              => /\ Done(r) /\ req[r].status = 500
                 /\ ~CalledOp(r, "upsert_item")
                 /\ ~CalledOp(r, "create_container_if_not_exists")
                 /\ \A d \in docs : d.blob # req[r].blob_name

\* one request's upload failed while another request's item was stored
C1_Witness ==
    /\ docs # {}
    /\ \E r \in Requests : Called(r, "upload_blob", FALSE) /\ Done(r)

\* C2: a request that passes authentication with a content type outside
\* the allow-list is answered 415 and calls neither store.
C2_UnsupportedMediaRejected ==
    \A r \in Requests :
        (Authenticated(r) /\ req[r].content_type \notin AllowList)
            => /\ NoStoreCall(r)
               /\ Done(r) => req[r].status = 415

\* C3: a request whose body turns out empty when read is answered 400 and
\* calls neither store.
C3_EmptyBodyRejected ==
    \A r \in Requests :
        (BodyRead(r) /\ req[r].payload = <<>>)
            => Done(r) /\ req[r].status = 400 /\ NoStoreCall(r)

\* C4: after a success response the blob container holds the object under
\* the returned name with the payload's length, and the metadata store holds
\* exactly one item naming it.
C4_SuccessMeansBothStored ==
    \A r \in Requests :
        req[r].status = 200
            => /\ req[r].body.blob \in DOMAIN blobs
               /\ Len(blobs[req[r].body.blob].data) = Len(req[r].payload)
               /\ Cardinality({d \in docs : d.blob = req[r].body.blob}) = 1

\* C5: with a token configured, a request without an Authorization header
\* is answered 401, one whose bearer token differs from the token is
\* answered 403, and a request gets past bearer_auth exactly when it carries
\* "Bearer <token>"; a request answered 401 or 403 has run none of the
\* handler: no name derived, no body read, no store called.
C5_BearerAuth ==
    \A r \in Requests :
        (Received(r) /\ ~Falsy(env.API_TOKEN)) =>
            LET h == req[r].authorization
                supplied == SubSeq(h, Len(Bearer) + 1, Len(h))
                rejected == /\ Done(r)
                            /\ NoStoreCall(r)
                            /\ req[r].blob_name = None
                            /\ req[r].data = <<>>
            IN  /\ h = None => rejected /\ req[r].status = 401
                /\ (h # None /\ StartsWith(h, Bearer) /\ supplied # env.API_TOKEN)
                       => rejected /\ req[r].status = 403
                /\ Authenticated(r) <=> req[r].status \notin {401, 403}

\* a request is refused with 403 for a token that is a proper prefix of the
\* configured one
C5_Witness ==
    /\ env.API_TOKEN = Token2
    /\ \E r \in Requests : req[r].authorization = Bearer \o Token1 /\ req[r].status = 403

\* C6: two requests never derive the same blob name nor the same document
\* id, whatever their inputs, and every successful upload_blob created a new
\* object: the container holds as many objects as uploads have succeeded,
\* each still holding its request's bytes.
C6_DistinctKeys ==
    /\ \A r1, r2 \in Requests :
        r1 # r2 =>
            /\ (req[r1].blob_name # None /\ req[r2].blob_name # None)
                  => req[r1].blob_name # req[r2].blob_name
            /\ (req[r1].doc # NoDoc /\ req[r2].doc # NoDoc)
                  => req[r1].doc.id # req[r2].doc.id
    /\ Cardinality(DOMAIN blobs)
          = Cardinality({r \in Requests : Called(r, "upload_blob", TRUE)})
    /\ \A r \in Requests :
        Called(r, "upload_blob", TRUE) => blobs[req[r].blob_name].data = req[r].payload

\* two requests with identical file, metadata and content type have both
\* been stored and both built their documents
C6_Witness ==
    \E r1, r2 \in Requests :
        /\ r1 # r2
        /\ req[r1].meta = req[r2].meta
        /\ req[r1].payload = req[r2].payload
        /\ req[r1].content_type = req[r2].content_type
        /\ req[r1].filename = req[r2].filename
        /\ req[r1].status = 200 /\ req[r2].status = 200

\* C7: every success response carries the storage key, the record
\* identifier and a content fingerprint of the payload.
C7_ResponseHasFingerprint ==
    \A r \in Requests :
        req[r].status = 200
            => /\ "blob" \in DOMAIN req[r].body
               /\ "id" \in DOMAIN req[r].body.doc
               /\ "content_hash" \in DOMAIN req[r].body

\* C8: a request that passes authentication with metadata that is not
\* well-formed JSON is answered 400 as it arrives: its body is not read, no
\* name is derived and neither store is called.
C8_MalformedMetaRejected ==
    \A r \in Requests :
        (Received(r) /\ Authenticated(r) /\ req[r].meta \in MalformedMetas)
            => /\ Done(r) /\ req[r].status = 400
               /\ req[r].data = <<>>
               /\ req[r].blob_name = None
               /\ NoStoreCall(r)

\* an authenticated request with a non-empty body and malformed metadata
\* has been answered
C8_Witness ==
    \E r \in Requests :
        /\ Authenticated(r) /\ Done(r)
        /\ req[r].meta \in MalformedMetas
        /\ req[r].payload # <<>>

\* C9: GET /healthz can answer in every state, whatever the settings, and
\* each call answers {ok: true} and changes neither store nor any request.
C9_HealthzAlwaysOk ==
    /\ [](Len(healthzResponses) < MaxHealthz => ENABLED Healthz)
    /\ [][healthzResponses' # healthzResponses
            => /\ healthzResponses' = Append(healthzResponses, [ok |-> TRUE])
               /\ blobs' = blobs /\ docs' = docs /\ req' = req /\ uuidCount' = uuidCount]_vars

\* /healthz has answered twice around a request that failed for want of
\* any usable setting
C9_Witness ==
    /\ Len(healthzResponses) >= 2
    /\ Falsy(env.API_TOKEN) /\ GetBlobClients(env) # "ok" /\ CosmosMissing(env)
    /\ \E r \in Requests : req[r].status = 500

\* C10: once upload_blob has succeeded, a failure of the metadata store
\* (creating the container or upsert_item) still ends in the success
\* response.
C10_MetadataBestEffort ==
    \A r \in Requests :
        (/\ Called(r, "upload_blob", TRUE)
         /\ Called(r, "create_container_if_not_exists", FALSE) \/ Called(r, "upsert_item", FALSE))
            => req[r].status = 200 /\ req[r].body.blob = req[r].blob_name

====
